---- MODULE Spec2Model ----
(***************************************************************************)
(* Minsky's Turing locator (minsky_locator.py): a six-state machine over   *)
(* the symbols X, Y, A, B, 0, 1, driven by Locator.process.                *)
(*                                                                         *)
(* A tape is a sequence of one-character strings.  The cursor `pointer` is *)
(* the 0-based Python index, so the cell under it is                       *)
(* parse_string[pointer + 1].  Python's None is the string "None".         *)
(***************************************************************************)
EXTENDS Integers, Sequences, FiniteSets, TLC

VARIABLES
    input,          \* the string handed to Locator(...)
    parse_string,   \* Locator.parse_string, the tape (<<>> before construction)
    pointer,        \* Locator.pointer
    prev,           \* the pointer before the latest State.shift, -1 if none yet
    entry,          \* the pointer at the entry of the latest State.read, -1 if none
    visited,        \* the states the run has been in so far
    curr_state,     \* Locator.curr_state: "L1" .. "R4", later also a verdict
    read,           \* the local `read` of State.read
    write,          \* the local `write` of Locator.process
    pc,             \* "new", "rejected", "constructed", "read", "done",
                    \* "IndexError"; "shift" in the cursor-movement specification
    error,          \* the message of the AssertionError raised by __init__
    result          \* the tuple returned by Locator.process

vars ==
    <<input, parse_string, pointer, prev, entry, visited, curr_state, read, write,
      pc, error, result>>

(* ---------------------------- bounds ----------------------------------- *)

\* longest string handed to Locator(...)
MaxLen == 8

\* longest string of the runs checked for termination
MaxCoreLen == 7

\* longest tape of the cursor-movement specification
MaxShiftLen == 6

(* ------------------------- inputs -------------------------------------- *)

None == "None"

\* the symbols an input string is written with: delimiters and bits
InputAlphabet == {"0", "1", "X", "Y"}

Strings(n) == UNION {[1..k -> InputAlphabet] : k \in 1..n}

\* the docstring's example and the two concrete tapes of the spec
ScenarioA == <<"Y", "1", "0", "1", "X", "1", "0", "1", "1", "1", "1">>
ScenarioB == <<"Y", "1", "1", "X", "0", "0", "Y">>

\* a tape whose second and third candidates are shorter than the target
SpillTape == <<"Y", "1", "1", "X", "0", "0", "0", "X", "1", "X", "1", "Y">>

\* inputs longer than MaxLen that are handed to Locator(...) as well
LongInputs == {ScenarioA, SpillTape}

(* ------------------- Python string helpers ----------------------------- *)

\* s[i:j] on 1-based positions i..j
Slice(s, i, j) == [k \in 1..(IF j >= i THEN j - i + 1 ELSE 0) |-> s[i + k - 1]]

\* str.index(ch): 0-based position of the first ch (callers guarantee one)
Index(s, ch) == (CHOOSE i \in 1..Len(s) : s[i] = ch /\ \A j \in 1..(i - 1) : s[j] # ch) - 1

\* str.split(sep): the pieces between consecutive separators
RECURSIVE Split(_, _)
Split(s, sep) ==
    IF \E i \in 1..Len(s) : s[i] = sep
    THEN LET i == Index(s, sep) + 1
         IN  <<Slice(s, 1, i - 1)>> \o Split(Slice(s, i + 1, Len(s)), sep)
    ELSE <<s>>

\* mutant: the target is taken from units[0] without stripping the delimiter
Strip_Forgotten(s, ch) == s

\* str.strip(ch): drop every leading and every trailing ch
RECURSIVE Strip(_, _)
Strip(s, ch) ==
    IF s = <<>> THEN s
    ELSE IF s[1] = ch THEN Strip(Tail(s), ch)
    ELSE IF s[Len(s)] = ch THEN Strip(Slice(s, 1, Len(s) - 1), ch)
    ELSE s

\* list indexing: a negative index counts from the end
PyIndex(p, n) == IF p < 0 THEN p + n ELSE p
InRange(p, n) == -n <= p /\ p < n
PyAt(tape, p) == tape[PyIndex(p, Len(tape)) + 1]

(* ---------------------- Locator._validate_string ----------------------- *)

\* the message of the first failing assert, or "ok"
ValidateString(s) ==
    LET units  == Split(s, "X")
        target == Strip(units[1], "Y")
    IN  IF ~(s[1] = "Y" /\ s[Len(s)] = "Y") THEN "Improper delimiters"
        ELSE IF ~(Len(units) > 1 /\ target # <<>>) THEN "No target--location pair"
        ELSE IF ~(0 < Len(target) /\ Len(target) < Len(units[2]))
             THEN "Target--location lengths don't match."
        ELSE "ok"

(* ------------------------- the state tables ---------------------------- *)

LeftStates == {"L1", "L2"}
RightStates == {"R1", "R2", "R3", "R4"}
States == LeftStates \cup RightStates
Verdicts == {"Halt", "Copy"}

\* read_write_next of each state: read |-> <<write, next>>
\* mutant: Left1 marks a 0 with the marker of 1
Left1_WrongMarker ==
    ("0" :> <<"B", None>>) @@ ("1" :> <<"B", None>>) @@ ("Y" :> <<None, "R1">>)
Left1 == ("0" :> <<"A", None>>) @@ ("1" :> <<"B", None>>) @@ ("Y" :> <<None, "R1">>)
Left2 == ("Y" :> <<None, "R1">>)
\* mutant: both markers send Right1 to Right2
Right1_SameBranch ==
    ("A" :> <<"0", "R2">>) @@ ("B" :> <<"1", "R2">>) @@ ("X" :> <<"Copy", "Copy">>)
\* mutant: Right1 reports the X after the target as exhaustion
Right1_HaltAtX ==
    ("A" :> <<"0", "R2">>) @@ ("B" :> <<"1", "R3">>) @@ ("X" :> <<"Halt", "Halt">>)
Right1 == ("A" :> <<"0", "R2">>) @@ ("B" :> <<"1", "R3">>) @@ ("X" :> <<"Copy", "Copy">>)
\* mutant: Right2 marks a matched 0 with the marker of 1
Right2_WrongMarker == ("0" :> <<"B", "L2">>) @@ ("1" :> <<"B", "R4">>)
Right2 == ("0" :> <<"A", "L2">>) @@ ("1" :> <<"B", "R4">>)
\* mutant: Right3 marks a mismatching 0 with the marker of 1
Right3_WrongMarker == ("0" :> <<"B", "R4">>) @@ ("1" :> <<"B", "L2">>)
\* mutant: Right3 gives up with Halt at the first mismatch
Right3_HaltOnMismatch == ("0" :> <<"Halt", "Halt">>) @@ ("1" :> <<"B", "L2">>)
Right3 == ("0" :> <<"A", "R4">>) @@ ("1" :> <<"B", "L2">>)
\* mutant: Right4 reports the closing Y as a match
Right4_CopyAtEnd == ("X" :> <<None, "L1">>) @@ ("Y" :> <<"Copy", "Copy">>)
Right4 == ("X" :> <<None, "L1">>) @@ ("Y" :> <<"Halt", "Halt">>)

read_write_next(st) ==
    CASE st = "L1" -> Left1
      [] st = "L2" -> Left2
      [] st = "R1" -> Right1
      [] st = "R2" -> Right2
      [] st = "R3" -> Right3
      [] st = "R4" -> Right4

(* ----------------------------- State.shift ----------------------------- *)

\* Python's `(c and v) or d` for an integer v: v when c holds and v is
\* non-zero, d otherwise
AndOr(c, v, d) == IF c /\ v # 0 THEN v ELSE d

\* mutant: no clamp at the right end
shift_RightUnclamped(st, p, str_length) ==
    IF st \in LeftStates THEN AndOr(p - 1 >= 0, p - 1, 0)
    ELSE IF st \in RightStates THEN p + 1
    ELSE p

\* mutant: no clamp at the left end
shift_LeftUnclamped(st, p, str_length) ==
    IF st \in LeftStates THEN p - 1
    ELSE IF st \in RightStates THEN AndOr(p + 1 < str_length, p + 1, str_length - 1)
    ELSE p

\* mutant: the right end wraps around to cell 0
shift_RightWraps(st, p, str_length) ==
    IF st \in LeftStates THEN AndOr(p - 1 >= 0, p - 1, 0)
    ELSE IF st \in RightStates THEN (p + 1) % str_length
    ELSE p

\* the pointer after one shift by state st on a tape of str_length cells
shift(st, p, str_length) ==
    IF st \in LeftStates THEN AndOr(p - 1 >= 0, p - 1, 0)
    ELSE IF st \in RightStates THEN AndOr(p + 1 < str_length, p + 1, str_length - 1)
    ELSE p

(* ------------------------------ Locator -------------------------------- *)

Init ==
    /\ input \in Strings(MaxLen) \cup LongInputs
    /\ parse_string = <<>>
    /\ pointer = 0
    /\ prev = -1
    /\ entry = -1
    /\ visited = {}
    /\ curr_state = None
    /\ read = None
    /\ write = None
    /\ pc = "new"
    /\ error = None
    /\ result = None

\* Locator.__init__: validate, then keep the list and point at the first X
Construct ==
    /\ pc = "new"
    /\ IF ValidateString(input) = "ok"
       THEN /\ parse_string' = input
            /\ pointer' = Index(input, "X")
            /\ pc' = "constructed"
            /\ error' = error
       ELSE /\ error' = ValidateString(input)
            /\ pc' = "rejected"
            /\ UNCHANGED <<parse_string, pointer>>
    /\ UNCHANGED <<input, prev, entry, visited, curr_state, read, write, result>>

\* Locator.start and the entry of Locator.process
Start ==
    /\ pc = "constructed"
    /\ curr_state' = "L1"
    /\ write' = None
    /\ read' = None
    /\ pc' = "read"
    /\ visited' = {"L1"}
    /\ UNCHANGED <<input, parse_string, pointer, prev, entry, error, result>>

\* mutant: the first iteration reads the cell under the cursor before shifting
Read_CheckBeforeShift ==
    /\ pc = "read"
    /\ read \notin DOMAIN read_write_next(curr_state)
    /\ entry' = IF read = None THEN pointer ELSE entry
    /\ prev' = pointer
    /\ pointer' = IF read = None THEN pointer
                  ELSE shift(curr_state, pointer, Len(parse_string))
    /\ IF InRange(pointer', Len(parse_string))
       THEN /\ read' = PyAt(parse_string, pointer')
            /\ pc' = pc
       ELSE /\ read' = read
            /\ pc' = "IndexError"
    /\ UNCHANGED <<input, parse_string, visited, curr_state, write, error, result>>

\* one iteration of the loop of State.read: shift, then read
Read ==
    /\ pc = "read"
    /\ read \notin DOMAIN read_write_next(curr_state)
    /\ entry' = IF read = None THEN pointer ELSE entry
    /\ prev' = pointer
    /\ pointer' = shift(curr_state, pointer, Len(parse_string))
    /\ IF InRange(pointer', Len(parse_string))
       THEN /\ read' = PyAt(parse_string, pointer')
            /\ pc' = pc
       ELSE /\ read' = read
            /\ pc' = "IndexError"
    /\ UNCHANGED <<input, parse_string, visited, curr_state, write, error, result>>

\* mutant: whatever the table holds as write is stored, None and verdicts too
WriteCell_Unguarded(tape, p, w) == [tape EXCEPT ![PyIndex(p, Len(tape)) + 1] = w]

\* mutant: the symbol is inserted in front of the cell instead of replacing it
WriteCell_Insert(tape, p, w) ==
    IF w # None /\ w \notin Verdicts
    THEN Slice(tape, 1, p) \o <<w>> \o Slice(tape, p + 1, Len(tape))
    ELSE tape

\* the cell write of State.process
WriteCell(tape, p, w) ==
    IF w # None /\ w \notin Verdicts
    THEN [tape EXCEPT ![PyIndex(p, Len(tape)) + 1] = w]
    ELSE tape

\* State.process once read() has returned, and the loop test and return of
\* Locator.process
Process ==
    /\ pc = "read"
    /\ read \in DOMAIN read_write_next(curr_state)
    /\ LET w     == read_write_next(curr_state)[read][1]
           next_ == read_write_next(curr_state)[read][2]
       IN  /\ parse_string' = WriteCell(parse_string, pointer, w)
           /\ curr_state' = IF next_ = None THEN curr_state ELSE next_
           /\ visited' = visited \cup ({curr_state'} \cap States)
           /\ write' = w
           /\ IF w \in Verdicts
              THEN /\ pc' = "done"
                   /\ result' = <<parse_string', w>>
              ELSE /\ pc' = "read"
                   /\ result' = result
    /\ read' = None
    /\ UNCHANGED <<input, pointer, prev, entry, error>>

Next == Construct \/ Start \/ Read \/ Process

Spec == Init /\ [][Next]_vars

(* ------------------- the runs of accepted inputs ----------------------- *)

\* The inputs that pass validation, up to MaxCoreLen symbols.  Python runs the
\* statements of a call one after the other without pausing, so a step that
\* can change the state is eventually taken.
InitCore ==
    /\ Init
    /\ ValidateString(input) = "ok"
    /\ Len(input) <= MaxCoreLen \/ input \in LongInputs

SpecCore == InitCore /\ [][Next]_vars /\ WF_vars(Next)

(* ------------- the transition engine on the documented tapes ----------- *)

\* The engine seeded as Locator.start leaves it (state Left1, cursor on the
\* first X), on the tapes the documentation runs it on and on the docstring's
\* example closed by its end delimiter.
EngineTapes == {ScenarioA, ScenarioB, ScenarioA \o <<"Y">>}

InitEngine ==
    /\ input \in EngineTapes
    /\ parse_string = input
    /\ pointer = Index(input, "X")
    /\ prev = -1
    /\ entry = -1
    /\ visited = {"L1"}
    /\ curr_state = "L1"
    /\ read = None
    /\ write = None
    /\ pc = "read"
    /\ error = None
    /\ result = None

NextEngine == Read \/ Process

SpecEngine == InitEngine /\ [][NextEngine]_vars

(* --------------------- State.shift on its own -------------------------- *)

\* every state, on every tape length up to MaxShiftLen, from every cell
InitShift ==
    /\ \E n \in 1..MaxShiftLen : parse_string = Slice(ScenarioA, 1, n)
    /\ input = parse_string
    /\ pointer \in 0..(Len(parse_string) - 1)
    /\ prev = -1
    /\ entry = -1
    /\ visited = {}
    /\ curr_state \in States
    /\ read = None
    /\ write = None
    /\ pc = "shift"
    /\ error = None
    /\ result = None

\* one call of State.shift
Shift ==
    /\ pc = "shift"
    /\ prev' = pointer
    /\ pointer' = shift(curr_state, pointer, Len(parse_string))
    /\ UNCHANGED <<input, parse_string, entry, visited, curr_state, read, write, pc,
                   error, result>>

SpecShift == InitShift /\ [][Shift]_vars

(* ======================= properties ==================================== *)

Bits == {"0", "1"}
IsBits(s) == \A i \in 1..Len(s) : s[i] \in Bits
HasX(s) == \E i \in 1..Len(s) : s[i] = "X"

\* the symbols between the first Y and the first X
TargetOf(s) == Slice(s, 2, Index(s, "X"))

\* the candidate segments of a tape that ends with Y: the symbols between
\* consecutive X, and between the last X and the closing Y
CandidatesOf(s) ==
    LET units == Split(s, "X")
    IN  [k \in 1..(Len(units) - 1) |->
            IF k = Len(units) - 1
            THEN Slice(units[k + 1], 1, Len(units[k + 1]) - 1)
            ELSE units[k + 1]]

BeginsWith(c, t) == Len(c) >= Len(t) /\ Slice(c, 1, Len(t)) = t

\* the input contract: Y at both ends, an X, a non-empty target strictly
\* shorter than the first candidate segment
InputContract(s) ==
    /\ s[1] = "Y" /\ s[Len(s)] = "Y"
    /\ HasX(s)
    /\ TargetOf(s) # <<>>
    /\ Len(TargetOf(s)) < Len(CandidatesOf(s)[1])

\* a tape of the input contract whose target and candidates are bit patterns
WellFormed(s) ==
    /\ InputContract(s)
    /\ IsBits(TargetOf(s))
    /\ \A k \in DOMAIN CandidatesOf(s) : IsBits(CandidatesOf(s)[k])

\* a read loop that can no longer leave its cell: the cursor is clamped in the
\* state's direction and the symbol there is not accepted
Stuck ==
    /\ pc = "read"
    /\ shift(curr_state, pointer, Len(parse_string)) = pointer
    /\ PyAt(parse_string, pointer) \notin DOMAIN read_write_next(curr_state)

Returned == pc = "done"
Running == pc \in {"constructed", "read", "done"}

\* C1: on a well-formed tape whose first candidate begins with the target
\* (matches it over the target's length) the run is accepted, never gets
\* stuck, and what it returns is the verdict "Copy".
C1_FirstMatchCopies ==
    (WellFormed(input) /\ BeginsWith(CandidatesOf(input)[1], TargetOf(input)))
        => /\ pc \notin {"rejected", "IndexError"}
           /\ ~Stuck
           /\ Returned => result[2] = "Copy"

C1_Witness ==
    /\ WellFormed(input)
    /\ BeginsWith(CandidatesOf(input)[1], TargetOf(input))
    /\ Len(TargetOf(input)) >= 2
    /\ Returned
    /\ result[2] = "Copy"

\* C2: on a well-formed tape none of whose candidates begins with the target
\* (so that none equals it) the run returns "Halt", with the cursor on the
\* closing Y, past every X.
C2_NoMatchHalts ==
    (WellFormed(input)
        /\ \A k \in DOMAIN CandidatesOf(input) :
              ~BeginsWith(CandidatesOf(input)[k], TargetOf(input)))
        => /\ pc \notin {"rejected", "IndexError"}
           /\ ~Stuck
           /\ Returned => (result[2] = "Halt" /\ pointer = Len(parse_string) - 1)

\* C3: on a tape of the input contract no read loop gets stuck at a tape end.
C3_ContractTerminates ==
    WellFormed(input) => ~Stuck /\ pc \notin {"rejected", "IndexError"}

\* C4: the engine started in Left1 on the X of "Y101X101111" never gets stuck
\* and returns ("Y101XBAB111", "Copy").
ScenarioAFinal == <<"Y", "1", "0", "1", "X", "B", "A", "B", "1", "1", "1">>

C5_ScenarioB ==
    input = ScenarioB
        => /\ pc \notin {"rejected", "IndexError"}
           /\ ~Stuck
           /\ Returned => result[2] = "Halt"

C5_Witness == input = ScenarioB /\ Returned /\ result[2] = "Halt"

\* C6: once the Locator holds a tape, 0 <= pointer < len(parse_string), and
\* no read or write is ever out of range.
C6_PointerInRange ==
    /\ pc # "IndexError"
    /\ Running => (0 <= pointer /\ pointer < Len(parse_string))

\* a read loop has bumped into the right end of the tape
C6_Witness ==
    /\ pc = "read"
    /\ prev = Len(parse_string) - 1
    /\ pointer = Len(parse_string) - 1

\* C7: the tape, and the tape returned with the verdict, have as many symbols
\* as the input.
C7_LengthKept ==
    /\ Running => Len(parse_string) = Len(input)
    /\ Returned => Len(result[1]) = Len(input)

C7_Witness == Returned /\ result[1] # input /\ Len(result[1]) = Len(input)

\* C8: a shift by a Left state leaves a cursor at 0 at 0 and otherwise moves
\* it one cell down; a shift by a Right state leaves a cursor at the last
\* index there and otherwise moves it one cell up.
C8_ShiftClamps ==
    prev # -1 =>
        IF curr_state \in LeftStates
        THEN pointer = (IF prev = 0 THEN 0 ELSE prev - 1)
        ELSE pointer = (IF prev = Len(parse_string) - 1 THEN prev ELSE prev + 1)

\* a Left state shifted again at cell 0 on a tape of several cells
C8_Witness ==
    /\ pc = "shift"
    /\ curr_state \in LeftStates
    /\ Len(parse_string) > 1
    /\ prev = 0
    /\ pointer = 0

\* C9: every accepted string satisfies the input contract.
C9_AcceptedMeetsContract == Running => InputContract(input)

\* C10: the six strings the docstring calls invalid are rejected with an
\* assertion message and never reach the engine.
InvalidExamples ==
    { <<"Y">>, <<"Y", "Y">>, <<"Y", "1", "1", "X", "1">>,
      <<"Y", "1", "1", "X", "1", "1">>, <<"Y", "X", "1", "1">>,
      <<"Y", "X", "1", "1", "Y">> }

C10_InvalidRejected ==
    input \in InvalidExamples
        => /\ pc \in {"new", "rejected"}
           /\ pc = "rejected" => error # None

C10_Witness ==
    /\ input = <<"Y", "X", "1", "1", "Y">>
    /\ pc = "rejected"
    /\ error = "No target--location pair"

\* C11: the docstring's valid example "Y101X101111" passes validation.
C11_DocExampleAccepted == input = ScenarioA => pc # "rejected"

\* read() has returned: the symbol under the cursor is accepted by the state
ReadStopped == pc = "read" /\ read \in DOMAIN read_write_next(curr_state)

\* C12: the run loop ends exactly at a Right1 step that read X, with "Copy",
\* and at a Right4 step that read Y, with "Halt"; every other step leaves the
\* loop running, and nothing happens after the return.
C12_Step ==
    /\ pc' = "done" =>
          /\ pc = "read"
          /\ \/ curr_state = "R1" /\ read = "X" /\ write' = "Copy"
             \/ curr_state = "R4" /\ read = "Y" /\ write' = "Halt"
          /\ result' = <<parse_string', write'>>
    /\ (ReadStopped /\ <<curr_state, read>> \in {<<"R1", "X">>, <<"R4", "Y">>})
          => pc' = "done"
    /\ pc = "done" => UNCHANGED vars

C12_VerdictOrigins == [][C12_Step]_vars

C12_Witness ==
    /\ Returned
    /\ result[2] = "Halt"
    /\ curr_state = "Halt"
    /\ PyAt(parse_string, pointer) = "Y"

\* C13: when read() returns, the cursor is not on the cell it was on when
\* read() was entered.
C13_ReadLeavesEntryCell == ReadStopped => pointer # entry

\* a read that skipped at least one cell before it stopped
C13_Witness == ReadStopped /\ entry # -1 /\ (pointer > entry + 1 \/ pointer < entry - 1)

Alphabet == {"0", "1", "A", "B", "X", "Y"}

\* the (state, symbol) pairs whose write is absent or a verdict
NoWritePairs ==
    {<<"L1", "Y">>, <<"L2", "Y">>, <<"R4", "X">>, <<"R1", "X">>, <<"R4", "Y">>}

\* C14: a step of the run changes no cell but the one under the cursor after
\* the read, and no cell at all while the read is still searching or when the
\* write is absent or a verdict; every tape symbol stays in the alphabet.
C14_Step ==
    pc = "read" =>
        /\ Len(parse_string') = Len(parse_string)
        /\ \A i \in 1..Len(parse_string) :
              i # pointer + 1 => parse_string'[i] = parse_string[i]
        /\ ~ReadStopped => parse_string' = parse_string
        /\ (ReadStopped /\ <<curr_state, read>> \in NoWritePairs)
              => parse_string' = parse_string

TapeInAlphabet == \A i \in 1..Len(parse_string) : parse_string[i] \in Alphabet

C14_OneCellWrites == [][C14_Step]_vars /\ []TapeInAlphabet

\* Right4 has read an X and written nothing: Left1 is entered a second time
\* on a tape that holds markers
C14_Witness ==
    /\ pc = "read"
    /\ curr_state = "L1"
    /\ read = None
    /\ write = None
    /\ "R4" \in visited
    /\ \E i \in 1..Len(parse_string) : parse_string[i] \in {"A", "B"}

\* C15: a run raises nothing; it returns a verdict or ends up in a read loop
\* clamped at the tape end on a symbol its state does not accept, and from
\* there cursor, tape and state never change again.
C15_StuckStep ==
    Stuck => /\ Stuck'
             /\ pointer' = pointer
             /\ parse_string' = parse_string
             /\ curr_state' = curr_state

NoErrorOutcome ==
    /\ pc \notin {"rejected", "IndexError"}
    /\ pc = "read" => curr_state \in States

C15_ReturnsOrHangs ==
    /\ []NoErrorOutcome
    /\ <>(Returned \/ Stuck)
    /\ [][C15_StuckStep]_vars

\* a hang that has gone round its loop: the last shift did not move the cursor
C15_Witness == Stuck /\ prev = pointer /\ read # None

SomeCandidateMatches(s) ==
    \E k \in DOMAIN CandidatesOf(s) : BeginsWith(CandidatesOf(s)[k], TargetOf(s))

\* C16: on a well-formed tape with several candidates the verdict returned is
\* "Copy" exactly when some candidate begins with the target, and "Halt"
\* otherwise.
C16_CopyIffSomeMatch ==
    (WellFormed(input) /\ Len(CandidatesOf(input)) >= 2 /\ Returned)
        => (result[2] = "Copy" <=> SomeCandidateMatches(input))

\* the marker of a digit; other symbols have none and stand for themselves
Marker(c) == IF c = "0" THEN "A" ELSE IF c = "1" THEN "B" ELSE c

\* Right1 has just been entered and the run has been in no other Right state
FirstRight1Entry ==
    /\ pc = "read"
    /\ curr_state = "R1"
    /\ read = None
    /\ visited = {"L1", "R1"}

\* the cursor is on the opening Y, the cells between it and the first X hold
\* the markers of the input's digits, the cells from the first X on are the
\* input's
TargetMarkedOnly ==
    /\ pointer = 0
    /\ \A i \in 2..Index(input, "X") : parse_string[i] = Marker(input[i])
    /\ \A i \in (Index(input, "X") + 1)..Len(input) : parse_string[i] = input[i]

\* C17 as stated: whenever Right1 is entered for the first time, the cursor
\* is at index 0, the target is marked and nothing else has changed.
C17_Original == FirstRight1Entry => TargetMarkedOnly

\* C17 amended: the same on the tapes whose target is a bit pattern, that is,
\* with no Y between the opening Y and the first X.
C17_FirstLeft1Phase ==
    (FirstRight1Entry /\ IsBits(TargetOf(input))) => TargetMarkedOnly

C17_Witness ==
    /\ FirstRight1Entry
    /\ IsBits(TargetOf(input))
    /\ Len(TargetOf(input)) >= 2
    /\ \E i \in 2..Index(input, "X") : parse_string[i] = "A"
    /\ TargetMarkedOnly

\* the bit a symbol stands for: A is 0, B is 1
Decode(c) == IF c = "A" THEN "0" ELSE IF c = "B" THEN "1" ELSE c
DecodeTape(t) == [i \in 1..Len(t) |-> Decode(t[i])]

Relabelings == {<<"0", "A">>, <<"1", "B">>, <<"A", "0">>, <<"B", "1">>}

\* C18: the decoded tape is the decoded input in every state of a run; a
\* step that changes a cell changes it by one of the four relabelings, and a
\* step that stopped on an X or a Y writes nothing.
C18_Step ==
    pc = "read" =>
        /\ \A i \in 1..Len(parse_string) :
              parse_string'[i] # parse_string[i]
                  => <<parse_string[i], parse_string'[i]>> \in Relabelings
        /\ (ReadStopped /\ read \in {"X", "Y"}) => parse_string' = parse_string

DecodedTapeKept == Running => DecodeTape(parse_string) = DecodeTape(input)

C18_BitContentKept == []DecodedTapeKept /\ [][C18_Step]_vars

\* a returned tape that holds both markers next to restored target digits
C18_Witness ==
    /\ Returned
    /\ \E i \in 1..Len(parse_string) : parse_string[i] = "A"
    /\ \E i \in 1..Len(parse_string) : parse_string[i] = "B"
    /\ DecodeTape(parse_string) = DecodeTape(input)

\* the only Y of the tape are its first and its last symbol
NoInnerY(s) == \A i \in 2..(Len(s) - 1) : s[i] # "Y"

\* at "Copy" the cursor is on the first X and the returned target segment is
\* the input's; at "Halt" the cursor is on a Y with every X to its left
VerdictPlace ==
    /\ result[2] = "Copy" =>
          /\ pointer = Index(input, "X")
          /\ Slice(result[1], 2, Index(input, "X")) = TargetOf(input)
    /\ result[2] = "Halt" =>
          /\ PyAt(result[1], pointer) = "Y"
          /\ \A i \in 1..Len(result[1]) : result[1][i] = "X" => i < pointer + 1

====
